---- MODULE Spec2Model ----
(***************************************************************************)
(* The dashboard: src/src/components/Calendar.tsx, src/src/app/page.tsx    *)
(* and src/src/app/api/calendar/route.ts.                                  *)
(*                                                                         *)
(* A Date is represented by what its local fields (getHours, startOfDay,   *)
(* isSameDay, format: those of the machine's timezone) read, in whole      *)
(* seconds counted from the local midnight that starts day 0; an event of  *)
(* the next day starts at 86400 or later.  Two Dates differ by as much as  *)
(* their getTime() differ.  A 'yyyy-MM-dd' string is represented by the    *)
(* number of the day it names.  Vertical positions are pixels, one pixel   *)
(* per minute (pixelsPerMinute).                                           *)
(***************************************************************************)
EXTENDS Integers, Sequences, FiniteSets, TLC

VARIABLES
    data,              \* the data prop: Null or [events |-> <<...>>]
    currentTime,       \* useState currentTime: the instant of the last clock tick
    showTomorrow,      \* useState showTomorrow
    isUserScrolling,   \* useState isUserScrolling
    scrollTimeouts,    \* pending timeouts of handleScroll: [remaining, isRef], isRef
                       \* marking the one scrollTimeoutRef.current names
    tomorrowTimeouts,  \* pending revert timeouts of handleTomorrowClick, likewise
    pendingScrolls,    \* the 100 ms timeouts of handleTomorrowClick, oldest first
    tick,              \* seconds until the setInterval of the clock fires next
    ticks,             \* how often it has fired
    containerHeight,   \* scheduleContainerRef.current.clientHeight
    scrollTop,         \* scheduleContainerRef.current.scrollTop
    savedTodayScrollPosition,  \* useRef savedTodayScrollPosition
    scrollEventPending,\* a scroll event of a scrollTo not yet delivered to onScroll
    lastScrollTo,      \* the last scrollTo call: who issued it and the top it asked for
    sinceScroll,       \* seconds since handleScroll last ran (-1: it never ran)
    sinceTomorrow,     \* seconds since the view was switched to tomorrow (-1: it shows
                       \* today)
    rendered           \* the last render of the schedule: whether there was one,
                       \* the columns and the positionedEvents of getEventsForSchedule
VARIABLES
    machineOffset      \* the UTC offset, in seconds, of the machine showing the display
\* the Dashboard of page.tsx; its calendarData is the data prop above
VARIABLES
    mounted,           \* the Dashboard (and with it the Calendar) is mounted
    weatherData,       \* useState weatherData: NoWeather or a snapshot
    weatherLoading,    \* useState weatherLoading
    weatherError,      \* useState weatherError: NoError or the message
    weatherLastRefreshed,  \* useState weatherLastRefreshed: {} (null) or {the time}
    calendarLoading,   \* useState calendarLoading
    calendarError,     \* useState calendarError
    weatherFetches,    \* fetches of /api/weather in flight: how many older ones, and
                       \* whether the one started last is among them
    calendarFetches,   \* fetches of /api/calendar in flight, likewise
    weatherTimeout,    \* the aligned first timeout: {} or {milliseconds left}
    weatherInterval,   \* the interval it starts, likewise
    calendarTimeout,
    calendarInterval,
    wallClock,         \* new Date(): milliseconds since the top of an hour
    loadedAt,          \* the wallClock the page was loaded at
    refreshedAt        \* when each kind was last refreshed by a timer: {} or {wallClock}
\* the calendar route of api/calendar/route.ts
VARIABLES
    poll,              \* one request: the configuration and what each source answers
    response           \* the response of GET to it, once it is there

timerVars == <<scrollTimeouts, tomorrowTimeouts, pendingScrolls, tick, ticks, sinceScroll,
               sinceTomorrow>>
scrollVars == <<containerHeight, scrollTop, savedTodayScrollPosition, scrollEventPending,
                lastScrollTo>>
\* the state of the Calendar component but for its data prop
calendarVars == <<currentTime, showTomorrow, isUserScrolling, timerVars, scrollVars, rendered>>
\* what no handler of the Calendar component writes
weatherVars == <<weatherData, weatherLoading, weatherError, weatherLastRefreshed>>
refreshVars == <<weatherFetches, calendarFetches, weatherTimeout, weatherInterval,
                 calendarTimeout, calendarInterval, wallClock, loadedAt, refreshedAt>>
dashboardVars == <<mounted, weatherVars, calendarLoading, calendarError, refreshVars>>
routeVars == <<poll, response>>
pageVars == <<machineOffset, dashboardVars, routeVars>>
vars == <<data, calendarVars, pageVars>>

----------------------------------------------------------------------------
(* Bounds of the model *)

\* the largest number of events in one poll result of the layout runs
MaxEvents == 4
\* the largest number of events in one poll result of the scroll runs
MaxDayEvents == 2
\* how often the clock ticks in one behaviour
MaxTicks == 1
\* the largest number of 100 ms timeouts of handleTomorrowClick pending at once
MaxPendingScrolls == 1
\* the latest instant (seconds after midnight) of an event of the layout runs
MaxInstant == 3
\* the largest number of events in one poll result of the day runs
MaxGlanceEvents == 2
\* the largest number of fetches of one kind in flight at once
MaxInFlight == 2
\* for how many minutes after the load the Dashboard is followed
MaxClockMinutes == 10
\* the largest number of Google calendars, and of iCal feeds, configured
MaxSources == 2

----------------------------------------------------------------------------
(* Time *)

SecondsPerDay == 24 * 60 * 60

\* startOfDay / isSameDay: the calendar day an instant falls on
DayOf(t) == t \div SecondsPerDay

isSameDay(a, b) == DayOf(a) = DayOf(b)

\* TIMEZONE = 'America/Toronto': its UTC offset (EST), in seconds
TorontoOffset == 0 - 5 * 60 * 60

\* toZonedTime(date, TIMEZONE) of the instant utc: a Date whose local fields
\* read Toronto's wall time
toZonedTime(utc) == utc + TorontoOffset

\* parseISO of the ISO string of the instant utc: that instant, whose local
\* fields are those of the machine's timezone
parseISO(utc) == utc + machineOffset

----------------------------------------------------------------------------
(* Events *)

\* data === null (nothing fetched yet)
Null == [events |-> << >>, isNull |-> TRUE]

\* a timed CalendarEvent; id is the event's position in the poll result
TimedEvent(i, s, e) ==
    [id |-> i, start |-> s, end |-> e, allDay |-> FALSE, calendarIndex |-> 0]

\* an all-day CalendarEvent of the calendar date day
AllDayEvent(i, day, calendarIndex) ==
    [id |-> i, start |-> day, end |-> day + 1, allDay |-> TRUE,
     calendarIndex |-> calendarIndex]

\* the all-day date string parsed as an instant, new Date('yyyy-MM-dd'): UTC
\* midnight of that date
isEventOnDay_ThroughInstant(event, targetDay) ==
    IF event.allDay
    THEN DayOf(event.start * SecondsPerDay + machineOffset) = targetDay
    ELSE DayOf(event.start) = targetDay

\* isEventOnDay; targetDay is the number of the day startOfDay gave, which
\* format(targetDay, 'yyyy-MM-dd') names
isEventOnDay(event, targetDay) ==
    IF event.allDay
    THEN event.start = targetDay
    ELSE DayOf(event.start) = targetDay

\* new Date(event.start).getTime(); a date-only string is UTC midnight
getTime(event) ==
    IF event.allDay THEN event.start * SecondsPerDay + machineOffset ELSE event.start

\* todayTimedEvents / tomorrowTimedEvents, then scheduleEvents
TimedEventsOn(events, targetDay) ==
    LET F[i \in 0..Len(events)] ==
            IF i = 0 THEN << >>
            ELSE IF isEventOnDay(events[i], targetDay) /\ ~events[i].allDay
                 THEN Append(F[i - 1], events[i])
                 ELSE F[i - 1]
    IN F[Len(events)]

scheduleEvents(d, now, tomorrowShown) ==
    IF tomorrowShown THEN TimedEventsOn(d.events, DayOf(now) + 1)
    ELSE TimedEventsOn(d.events, DayOf(now))

----------------------------------------------------------------------------
(* getEventsForSchedule *)

\* Array.prototype.sort with (a, b) => a.start - b.start: stable, ascending
InsertByStart(sorted, ev) ==
    LET after == {i \in 1..Len(sorted) : getTime(sorted[i]) > getTime(ev)}
        k == IF after = {} THEN Len(sorted) + 1
             ELSE CHOOSE i \in after : \A j \in after : i <= j
    IN SubSeq(sorted, 1, k - 1) \o <<ev>> \o SubSeq(sorted, k, Len(sorted))

\* the sort left out: dayEvents stay in the order supplied
SortByStart_Omitted(s) == s

SortByStart(s) ==
    LET F[i \in 0..Len(s)] ==
            IF i = 0 THEN << >> ELSE InsertByStart(F[i - 1], s[i])
    IN F[Len(s)]

\* the endpoint test comparing the two starts instead of start and end
IntervalsOverlap_StartTypo(eventStart, eventEnd, otherStart, otherEnd) ==
    IF eventEnd = otherStart \/ eventStart = otherStart THEN FALSE
    ELSE eventStart < otherEnd /\ eventEnd > otherStart

\* inclusive comparisons and no endpoint test
IntervalsOverlap_Inclusive(eventStart, eventEnd, otherStart, otherEnd) ==
    eventStart <= otherEnd /\ eventEnd >= otherStart

\* the test inside column.some(...) of both passes
IntervalsOverlap(eventStart, eventEnd, otherStart, otherEnd) ==
    IF eventEnd = otherStart \/ eventStart = otherEnd THEN FALSE
    ELSE eventStart < otherEnd /\ eventEnd > otherStart

\* only the first member of the column is tested
hasOverlap_FirstOnly(dayEvents, column, k) ==
    /\ Len(column) > 0
    /\ IntervalsOverlap(dayEvents[k].start, dayEvents[k].end,
                        dayEvents[column[1]].start, dayEvents[column[1]].end)

\* hasOverlap of the placement pass; a column is a sequence of indices into
\* dayEvents (the objects the column holds)
hasOverlap(dayEvents, column, k) ==
    \E j \in 1..Len(column) :
        IntervalsOverlap(dayEvents[k].start, dayEvents[k].end,
                         dayEvents[column[j]].start, dayEvents[column[j]].end)

\* no column is tried: every event opens a column of its own
PlaceEvent_AlwaysNewColumn(dayEvents, columns, k) == Append(columns, <<k>>)

\* one iteration of the first forEach: first column without overlap, or a new one
PlaceEvent(dayEvents, columns, k) ==
    LET free == {i \in 1..Len(columns) : ~hasOverlap(dayEvents, columns[i], k)}
    IN IF free = {} THEN Append(columns, <<k>>)
       ELSE LET i == CHOOSE c \in free : \A c2 \in free : c <= c2
            IN [columns EXCEPT ![i] = Append(@, k)]

\* the first forEach over the sorted dayEvents
PlaceAll(dayEvents) ==
    LET F[k \in 0..Len(dayEvents)] ==
            IF k = 0 THEN << >> ELSE PlaceEvent(dayEvents, F[k - 1], k)
    IN F[Len(dayEvents)]

\* columns.findIndex(col => col.includes(event)), zero-based
columnIndex(columns, k) ==
    LET holds == {i \in 1..Len(columns) :
                     \E j \in 1..Len(columns[i]) : columns[i][j] = k}
    IN IF holds = {} THEN -1
       ELSE (CHOOSE i \in holds : \A i2 \in holds : i <= i2) - 1

\* hasOverlappingEvent of the second pass: the event itself is skipped by id
hasOverlappingEvent(dayEvents, column, k) ==
    \E j \in 1..Len(column) :
        /\ dayEvents[column[j]].id # dayEvents[k].id
        /\ IntervalsOverlap(dayEvents[k].start, dayEvents[k].end,
                            dayEvents[column[j]].start, dayEvents[column[j]].end)

overlappingColumns(dayEvents, columns, k) ==
    Cardinality({i \in 1..Len(columns) :
                    hasOverlappingEvent(dayEvents, columns[i], k)})

\* the PositionedEvent pushed for dayEvents[k]
Positioned(dayEvents, columns, k) ==
    LET n == overlappingColumns(dayEvents, columns, k)
    IN [id |-> dayEvents[k].id,
        start |-> dayEvents[k].start,
        end |-> dayEvents[k].end,
        column |-> IF n > 0 THEN columnIndex(columns, k) ELSE 0,
        totalColumns |-> IF n > 0 THEN n + 1 ELSE 1]

getEventsForSchedule(events) ==
    LET dayEvents == SortByStart(events)
        columns == PlaceAll(dayEvents)
    IN [k \in 1..Len(dayEvents) |-> Positioned(dayEvents, columns, k)]

----------------------------------------------------------------------------
(* The auto-scroll effect *)

Max(a, b) == IF a >= b THEN a ELSE b
Min(a, b) == IF a <= b THEN a ELSE b

\* the periods of the timers, in seconds
ClockTickSec == 60
ScrollQuietSec == 10
\* a revert that comes five seconds late
TomorrowRevertSec_Late == 30 + 5

TomorrowRevertSec == 30

\* the geometry of the schedule: 24 rows of hourHeight pixels under a top
\* padding, closed by the one-pixel "12 AM" row
SCHEDULE_TOP_PADDING == 8
hourHeight == 60
latestHour == 24
contentHeight == SCHEDULE_TOP_PADDING + latestHour * hourHeight + 1

\* the heights the flex-1 schedule container takes in the 520px card, with
\* and without the all-day header; both even, so that containerHeight / 2 is
\* a whole number
ContainerHeights == {384, 436}

\* getHours() * 60 + getMinutes() of an instant, times pixelsPerMinute (1.0)
minutesSinceMidnight(t) ==
    ((t % SecondsPerDay) \div 3600) * 60 + ((t % 3600) \div 60)

\* todayEvents of the effect
todayEvents(d, now) == TimedEventsOn(d.events, DayOf(now))

\* upcomingEvents: the events of today whose end is after now
upcomingEvents(d, now) ==
    LET today == todayEvents(d, now)
        F[i \in 0..Len(today)] ==
            IF i = 0 THEN << >>
            ELSE IF today[i].end > now THEN Append(F[i - 1], today[i]) ELSE F[i - 1]
    IN F[Len(today)]

\* the upper clamp left out
eveningPosition_NoUpperClamp(currentTimePosition, height) ==
    Max(0, currentTimePosition - height \div 2)

\* the evening case: no more events today
eveningPosition(currentTimePosition, height) ==
    Min(Max(0, currentTimePosition - height \div 2), contentHeight - height)

\* the last step left out
keepRedLineVisible_Omitted(scrollPosition, currentTimePosition, height) == scrollPosition

\* the last step of the active day case
keepRedLineVisible(scrollPosition, currentTimePosition, height) ==
    Min(scrollPosition, currentTimePosition - 100)

\* firstEventPosition: where upcomingEvents[0] starts
firstEventPosition(upcoming) == minutesSinceMidnight(upcoming[1].start)

\* lastEventPosition: where upcomingEvents[upcomingEvents.length - 1] ends
lastEventPosition(upcoming) == minutesSinceMidnight(upcoming[Len(upcoming)].end)

\* the active day case without the centering on the current time
activeDayPosition_NotCentered(upcoming, currentTimePosition, height) ==
    LET earliestDesiredPosition == Max(0, firstEventPosition(upcoming) - 120)
        visibleBottom == earliestDesiredPosition + height
        withLast == IF lastEventPosition(upcoming) > visibleBottom
                    THEN Max(0, lastEventPosition(upcoming) - height + 60)
                    ELSE earliestDesiredPosition
    IN keepRedLineVisible(withLast, currentTimePosition, height)

\* the active day case: there are upcoming events
activeDayPosition(upcoming, currentTimePosition, height) ==
    LET earliestDesiredPosition == Max(0, firstEventPosition(upcoming) - 120)
        centeredPosition == Max(0, currentTimePosition - height \div 2)
        candidate == Max(earliestDesiredPosition, centeredPosition)
        visibleBottom == candidate + height
        withLast == IF lastEventPosition(upcoming) > visibleBottom
                    THEN Max(0, lastEventPosition(upcoming) - height + 60)
                    ELSE candidate
    IN keepRedLineVisible(withLast, currentTimePosition, height)

\* the test of isUserScrolling left out
effectScrolls_IgnoresUserScrolling(d, now, tomorrowShown, userScrolling) ==
    /\ ~tomorrowShown
    /\ d # Null
    /\ Len(todayEvents(d, now)) > 0

\* the condition under which the effect computes a position and scrolls
effectScrolls(d, now, tomorrowShown, userScrolling) ==
    /\ ~tomorrowShown
    /\ ~userScrolling
    /\ d # Null
    /\ Len(todayEvents(d, now)) > 0

\* scrollPosition of the effect
scrollPosition(d, now, height) ==
    IF Len(upcomingEvents(d, now)) = 0
    THEN eveningPosition(minutesSinceMidnight(now), height)
    ELSE activeDayPosition(upcomingEvents(d, now), minutesSinceMidnight(now), height)

\* Element.scrollTo({top}): the offset the container takes
scrollTo(top, height) == Max(0, Min(top, contentHeight - height))

NoScrollTo == [by |-> "none", top |-> 0]

----------------------------------------------------------------------------
(* The day's buckets and "tomorrow at a glance" *)

\* data.events.filter(event => isEventOnDay(event, targetDay))
EventsOn(events, targetDay) ==
    LET F[i \in 0..Len(events)] ==
            IF i = 0 THEN << >>
            ELSE IF isEventOnDay(events[i], targetDay)
                 THEN Append(F[i - 1], events[i])
                 ELSE F[i - 1]
    IN F[Len(events)]

\* .filter(event => event.allDay) and .filter(event => !event.allDay)
AllDayOnly(events) ==
    LET F[i \in 0..Len(events)] ==
            IF i = 0 THEN << >>
            ELSE IF events[i].allDay THEN Append(F[i - 1], events[i]) ELSE F[i - 1]
    IN F[Len(events)]

TimedOfCalendar(events, calendarIndex) ==
    LET F[i \in 0..Len(events)] ==
            IF i = 0 THEN << >>
            ELSE IF ~events[i].allDay /\ events[i].calendarIndex = calendarIndex
                 THEN Append(F[i - 1], events[i])
                 ELSE F[i - 1]
    IN F[Len(events)]

\* .sort((a, b) => b.calendarIndex - a.calendarIndex): stable, descending
SortByCalendarIndex(events) ==
    LET Insert(sorted, ev) ==
            LET after == {i \in 1..Len(sorted) : sorted[i].calendarIndex < ev.calendarIndex}
                k == IF after = {} THEN Len(sorted) + 1
                     ELSE CHOOSE i \in after : \A j \in after : i <= j
            IN SubSeq(sorted, 1, k - 1) \o <<ev>> \o SubSeq(sorted, k, Len(sorted))
        F[i \in 0..Len(events)] ==
            IF i = 0 THEN << >> ELSE Insert(F[i - 1], events[i])
    IN F[Len(events)]

todayAllDayEvents(d, now) == SortByCalendarIndex(AllDayOnly(EventsOn(d.events, DayOf(now))))

tomorrowAllDayEvents(d, now) ==
    SortByCalendarIndex(AllDayOnly(EventsOn(d.events, DayOf(now) + 1)))

\* differenceInMinutes(later, earlier), later not before earlier: whole minutes
differenceInMinutes(later, earlier) == (later - earlier) \div 60

\* calEvents.reduce(...): the first event of the longest duration in minutes
longest(calEvents) ==
    LET duration(ev) == differenceInMinutes(ev.end, ev.start)
        F[i \in 1..Len(calEvents)] ==
            IF i = 1 THEN calEvents[1]
            ELSE IF duration(calEvents[i]) > duration(F[i - 1])
                 THEN calEvents[i]
                 ELSE F[i - 1]
    IN F[Len(calEvents)]

\* Object.values(calendarGroups): the groups by ascending calendarIndex
longestPerCalendar(events) ==
    LET indexes == {events[i].calendarIndex : i \in {j \in 1..Len(events) : ~events[j].allDay}}
        last == IF indexes = {} THEN -1 ELSE CHOOSE c \in indexes : \A x \in indexes : x <= c
        F[c \in -1..last] ==
            IF c = -1 THEN << >>
            ELSE IF c \in indexes
                 THEN Append(F[c - 1], longest(TimedOfCalendar(events, c)))
                 ELSE F[c - 1]
    IN F[last]

\* tomorrowEventsToShow: the all-day events of tomorrow and the longest timed
\* event of each calendar, sorted by start
tomorrowEventsToShow(d, now) ==
    LET tomorrowEvents == EventsOn(d.events, DayOf(now) + 1)
    IN SortByStart(AllDayOnly(tomorrowEvents) \o longestPerCalendar(tomorrowEvents))

----------------------------------------------------------------------------
(* The layout runs: one poll result of timed events of today, rendered *)

Intervals == {<<s, e>> \in (0..MaxInstant) \X (0..MaxInstant) : s <= e}

\* the calendar route returns the events sorted by start
PollResults ==
    {s \in UNION {[1..n -> Intervals] : n \in 0..MaxEvents} :
        \A i \in 1..Len(s) - 1 : s[i][1] <= s[i + 1][1]}

EventsOf(p) == [i \in 1..Len(p) |-> TimedEvent(i, p[i][1], p[i][2])]

NotRendered ==
    [done |-> FALSE, columns |-> << >>, positionedEvents |-> << >>,
     todayTimedEvents |-> << >>, todayAllDayEvents |-> << >>,
     tomorrowTimedEvents |-> << >>, tomorrowAllDayEvents |-> << >>,
     tomorrowEventsToShow |-> << >>]

\* the state of a Calendar just mounted, but for data, currentTime and
\* containerHeight
Mounted ==
    /\ showTomorrow = FALSE
    /\ isUserScrolling = FALSE
    /\ scrollTimeouts = {}
    /\ tomorrowTimeouts = {}
    /\ pendingScrolls = << >>
    /\ tick = ClockTickSec
    /\ ticks = 0
    /\ scrollTop = 0
    /\ savedTodayScrollPosition = 0
    /\ scrollEventPending = FALSE
    /\ lastScrollTo = NoScrollTo
    /\ sinceScroll = -1
    /\ sinceTomorrow = -1
    /\ rendered = NotRendered

\* the display runs on a machine in Toronto's timezone
InToronto == machineOffset = TorontoOffset

\* weatherData === null, weatherError === null
NoWeather == [isNull |-> TRUE]
NoError == "null"

NoFetches == [older |-> 0, latest |-> FALSE]

\* the Dashboard with both kinds loaded and no fetch or timer of its own
DashboardLoaded ==
    /\ mounted = TRUE
    /\ weatherData = NoWeather
    /\ weatherLoading = FALSE
    /\ weatherError = NoError
    /\ weatherLastRefreshed = {}
    /\ calendarLoading = FALSE
    /\ calendarError = NoError
    /\ weatherFetches = NoFetches
    /\ calendarFetches = NoFetches
    /\ weatherTimeout = {}
    /\ weatherInterval = {}
    /\ calendarTimeout = {}
    /\ calendarInterval = {}
    /\ wallClock = 0
    /\ loadedAt = 0
    /\ refreshedAt = [weather |-> {}, calendar |-> {}]

NoPoll == [googleConfigured |-> FALSE, authThrows |-> FALSE, google |-> << >>, ical |-> << >>]
NoResponse == [done |-> FALSE, status |-> 0, error |-> "", events |-> << >>]

\* no request to the calendar route
RouteIdle == poll = NoPoll /\ response = NoResponse

\* the state outside the Calendar component while only the Calendar runs
PageIdle == InToronto /\ DashboardLoaded /\ RouteIdle

InitLayout ==
    /\ data \in {[events |-> EventsOf(p)] : p \in PollResults}
    /\ currentTime = 0
    /\ containerHeight = 436
    /\ Mounted
    /\ PageIdle

\* one render of the schedule: getEventsForSchedule() over scheduleEvents
Render ==
    /\ data # Null
    /\ ~rendered.done
    /\ rendered' = [done |-> TRUE,
                    columns |-> PlaceAll(SortByStart(scheduleEvents(data, currentTime, showTomorrow))),
                    positionedEvents |->
                        getEventsForSchedule(scheduleEvents(data, currentTime, showTomorrow)),
                    todayTimedEvents |-> TimedEventsOn(data.events, DayOf(currentTime)),
                    todayAllDayEvents |-> todayAllDayEvents(data, currentTime),
                    tomorrowTimedEvents |-> TimedEventsOn(data.events, DayOf(currentTime) + 1),
                    tomorrowAllDayEvents |-> tomorrowAllDayEvents(data, currentTime),
                    tomorrowEventsToShow |-> tomorrowEventsToShow(data, currentTime)]
    /\ UNCHANGED <<data, currentTime, showTomorrow, isUserScrolling, timerVars, scrollVars,
                   pageVars>>

NextLayout == Render

SpecLayout == InitLayout /\ [][NextLayout]_vars

----------------------------------------------------------------------------
(* The Calendar component: handlers, timers and the effect *)

ScrollState ==
    [scrollTop |-> scrollTop, lastScrollTo |-> lastScrollTo,
     scrollEventPending |-> scrollEventPending]

SetScrollState(st) ==
    /\ scrollTop' = st.scrollTop
    /\ lastScrollTo' = st.lastScrollTo
    /\ scrollEventPending' = st.scrollEventPending

\* container.scrollTo({top, behavior: 'smooth'}) issued by `by`; the container
\* fires a scroll event when its offset changes
CallScrollTo(st, by, top) ==
    [scrollTop |-> scrollTo(top, containerHeight),
     lastScrollTo |-> [by |-> by, top |-> top],
     scrollEventPending |->
        (st.scrollEventPending \/ scrollTo(top, containerHeight) # st.scrollTop)]

\* one run of the auto-scroll effect with the state values of the new render
autoScrollEffect(d, now, tomorrowShown, userScrolling, st) ==
    IF effectScrolls(d, now, tomorrowShown, userScrolling)
    THEN CallScrollTo(st, "effect", scrollPosition(d, now, containerHeight))
    ELSE st

\* the clearTimeout left out: the earlier timeout stays pending
Restarted_NoClear(timeouts, period) ==
    {[remaining |-> t.remaining, isRef |-> FALSE] : t \in timeouts}
        \cup {[remaining |-> period, isRef |-> TRUE]}

\* clearTimeout(ref.current) followed by ref.current = setTimeout(.., period)
Restarted(timeouts, period) ==
    {t \in timeouts : ~t.isRef} \cup {[remaining |-> period, isRef |-> TRUE]}

\* the clearTimeout left out
Cleared_Omitted(timeouts) == timeouts

\* clearTimeout(ref.current) alone
Cleared(timeouts) == {t \in timeouts : ~t.isRef}

\* handleScroll, and the effect when isUserScrolling changed
handleScroll(st) ==
    /\ isUserScrolling' = TRUE
    /\ scrollTimeouts' = Restarted(scrollTimeouts, ScrollQuietSec)
    /\ sinceScroll' = 0
    /\ SetScrollState(IF isUserScrolling THEN st
                      ELSE autoScrollEffect(data, currentTime, showTomorrow, TRUE, st))
    /\ UNCHANGED <<data, currentTime, showTomorrow, tomorrowTimeouts, pendingScrolls,
                   tick, ticks, sinceTomorrow, containerHeight, savedTodayScrollPosition,
                   rendered, pageVars>>

\* the offsets the operator drags the schedule to
UserOffsets == {0, 600}

\* the operator scrolls the schedule: onScroll
UserScroll(pos) ==
    /\ data # Null
    /\ pos # scrollTop
    /\ handleScroll([ScrollState EXCEPT !.scrollTop = pos])

\* the scroll event of a scrollTo reaches onScroll
ScrollEventDelivered ==
    /\ scrollEventPending
    /\ handleScroll([ScrollState EXCEPT !.scrollEventPending = FALSE])

\* the timeout of handleScroll expires: setIsUserScrolling(false)
ScrollTimeoutFires ==
    \E t \in scrollTimeouts :
        /\ t.remaining = 0
        /\ scrollTimeouts' = scrollTimeouts \ {t}
        /\ isUserScrolling' = FALSE
        /\ SetScrollState(IF ~isUserScrolling THEN ScrollState
                          ELSE autoScrollEffect(data, currentTime, showTomorrow, FALSE,
                                                ScrollState))
        /\ UNCHANGED <<data, currentTime, showTomorrow, tomorrowTimeouts, pendingScrolls,
                       tick, ticks, sinceScroll, sinceTomorrow, containerHeight,
                       savedTodayScrollPosition, rendered, pageVars>>

\* the setInterval of the clock fires: setCurrentTime
ClockTick ==
    /\ tick = 0
    /\ ticks < MaxTicks
    /\ currentTime' = currentTime + ClockTickSec
    /\ tick' = ClockTickSec
    /\ ticks' = ticks + 1
    /\ SetScrollState(autoScrollEffect(data, currentTime + ClockTickSec, showTomorrow,
                                       isUserScrolling, ScrollState))
    /\ UNCHANGED <<data, showTomorrow, isUserScrolling, scrollTimeouts, tomorrowTimeouts,
                   pendingScrolls, sinceScroll, sinceTomorrow, containerHeight,
                   savedTodayScrollPosition, rendered, pageVars>>

\* the data prop changes: a calendar fetch of the Dashboard succeeded
CalendarDataChange(d) ==
    /\ data' = d
    /\ SetScrollState(autoScrollEffect(d, currentTime, showTomorrow, isUserScrolling,
                                       ScrollState))
    /\ UNCHANGED <<currentTime, showTomorrow, isUserScrolling, timerVars, containerHeight,
                   savedTodayScrollPosition, rendered, pageVars>>

\* where the 100 ms timeout of a switch to tomorrow scrolls to: one hour above
\* the first timed event of tomorrow, or the top
firstEventOfTomorrowTop(d, now) ==
    LET tomorrowTimedEvts == TimedEventsOn(d.events, DayOf(now) + 1)
        starts == {tomorrowTimedEvts[i].start : i \in 1..Len(tomorrowTimedEvts)}
        earliest == CHOOSE x \in starts : \A y \in starts : x <= y
    IN IF Len(tomorrowTimedEvts) > 0
       THEN Max(0, minutesSinceMidnight(earliest) - 60)
       ELSE 0

\* handleTomorrowClick, and the effect for the changed showTomorrow
handleTomorrowClick ==
    /\ data # Null
    /\ Len(pendingScrolls) < MaxPendingScrolls
    /\ showTomorrow' = ~showTomorrow
    /\ sinceTomorrow' = IF ~showTomorrow THEN 0 ELSE -1
    /\ IF ~showTomorrow
       THEN /\ savedTodayScrollPosition' = scrollTop
            /\ tomorrowTimeouts' = Restarted(tomorrowTimeouts, TomorrowRevertSec)
            /\ pendingScrolls' =
                   Append(pendingScrolls,
                          [kind |-> "tomorrow",
                           top |-> firstEventOfTomorrowTop(data, currentTime)])
       ELSE /\ savedTodayScrollPosition' = savedTodayScrollPosition
            /\ tomorrowTimeouts' = Cleared(tomorrowTimeouts)
            /\ pendingScrolls' = Append(pendingScrolls, [kind |-> "restore", top |-> 0])
    /\ SetScrollState(autoScrollEffect(data, currentTime, ~showTomorrow, isUserScrolling,
                                       ScrollState))
    /\ UNCHANGED <<data, currentTime, isUserScrolling, scrollTimeouts, tick, ticks,
                   sinceScroll, containerHeight, rendered, pageVars>>

\* a 100 ms timeout of handleTomorrowClick expires
DelayedScrollFires ==
    /\ pendingScrolls # << >>
    /\ pendingScrolls' = Tail(pendingScrolls)
    /\ SetScrollState(
           CallScrollTo(ScrollState, Head(pendingScrolls).kind,
                        IF Head(pendingScrolls).kind = "tomorrow"
                        THEN Head(pendingScrolls).top
                        ELSE savedTodayScrollPosition))
    /\ UNCHANGED <<data, currentTime, showTomorrow, isUserScrolling, scrollTimeouts,
                   tomorrowTimeouts, tick, ticks, sinceScroll, sinceTomorrow, containerHeight,
                   savedTodayScrollPosition, rendered, pageVars>>

\* the revert timeout expires: setShowTomorrow(false)
TomorrowTimeoutFires ==
    \E t \in tomorrowTimeouts :
        /\ t.remaining = 0
        /\ tomorrowTimeouts' = tomorrowTimeouts \ {t}
        /\ showTomorrow' = FALSE
        /\ sinceTomorrow' = -1
        /\ SetScrollState(IF ~showTomorrow THEN ScrollState
                          ELSE autoScrollEffect(data, currentTime, FALSE, isUserScrolling,
                                                ScrollState))
        /\ UNCHANGED <<data, currentTime, isUserScrolling, scrollTimeouts, pendingScrolls,
                       tick, ticks, sinceScroll, containerHeight, savedTodayScrollPosition,
                       rendered, pageVars>>

\* the steps in which time passes
Delays == {5}

Elapse(timeouts, d) ==
    {[remaining |-> t.remaining - d, isRef |-> t.isRef] : t \in timeouts}

\* d seconds pass; no timer is overrun, and the 100 ms timeouts and scroll
\* events, which take less than a step, have been served
Advance(d) ==
    /\ pendingScrolls = << >>
    /\ ~scrollEventPending
    /\ tick >= d
    /\ \A t \in scrollTimeouts \cup tomorrowTimeouts : t.remaining >= d
    /\ tick' = tick - d
    /\ scrollTimeouts' = Elapse(scrollTimeouts, d)
    /\ tomorrowTimeouts' = Elapse(tomorrowTimeouts, d)
    /\ sinceScroll' = IF sinceScroll < 0 THEN sinceScroll
                      ELSE Min(sinceScroll + d, ScrollQuietSec + d)
    /\ sinceTomorrow' = IF sinceTomorrow < 0 THEN sinceTomorrow ELSE sinceTomorrow + d
    /\ UNCHANGED <<data, currentTime, showTomorrow, isUserScrolling, pendingScrolls, ticks,
                   scrollVars, rendered, pageVars>>

\* the instant h:m of day 0
At(h, m) == (h * 60 + m) * 60

\* the instants the Calendar of the component runs is mounted at
StartTimes == {At(14, 0)}

\* the poll results of the component runs: none or two events of today ahead,
\* or one that is over and one of tomorrow
Polls ==
    {[events |-> << >>],
     [events |-> <<TimedEvent(1, At(15, 0), At(15, 30)),
                   TimedEvent(2, At(22, 0), At(22, 30))>>],
     [events |-> <<TimedEvent(1, At(9, 0), At(10, 0)),
                   TimedEvent(2, At(24 + 9, 0), At(24 + 10, 0))>>]}

Init ==
    /\ data = Null
    /\ currentTime \in StartTimes
    /\ containerHeight \in ContainerHeights
    /\ Mounted
    /\ PageIdle

Next ==
    \/ \E d \in Polls : CalendarDataChange(d)
    \/ ClockTick
    \/ \E pos \in UserOffsets : UserScroll(pos)
    \/ ScrollEventDelivered
    \/ ScrollTimeoutFires
    \/ handleTomorrowClick
    \/ DelayedScrollFires
    \/ TomorrowTimeoutFires
    \/ \E d \in Delays : Advance(d)

Spec == Init /\ [][Next]_vars

----------------------------------------------------------------------------
(* The scroll runs: a Calendar mounted at some time of day receives its      *)
(* first poll result, and the effect frames it                               *)

ScrollInstants ==
    {At(0, 30), At(9, 0), At(14, 0), At(15, 0), At(15, 30), At(22, 0), At(22, 30),
     At(23, 50), At(24 + 9, 0)}

ScrollIntervals == {<<s, e>> \in ScrollInstants \X ScrollInstants : s <= e}

\* poll results over these instants, sorted by start as the calendar route
\* returns them
ScrollPolls ==
    {s \in UNION {[1..n -> ScrollIntervals] : n \in 0..MaxDayEvents} :
        \A i \in 1..Len(s) - 1 : s[i][1] <= s[i + 1][1]}

InitScroll ==
    /\ data = Null
    /\ currentTime \in {t \in ScrollInstants : DayOf(t) = 0}
    /\ containerHeight \in ContainerHeights
    /\ Mounted
    /\ PageIdle

\* the first poll result arrives
FirstLoad ==
    /\ data = Null
    /\ \E p \in ScrollPolls : CalendarDataChange([events |-> EventsOf(p)])

NextScroll == FirstLoad

SpecScroll == InitScroll /\ [][NextScroll]_vars

----------------------------------------------------------------------------
(* The day runs: a poll result with all-day and timed events around         *)
(* Toronto's midnights, rendered on a machine of some timezone.  Instants   *)
(* on the wire are UTC, counted from the UTC midnight of day 0.              *)

\* Toronto, UTC, Tokyo, Los Angeles
MachineOffsets == {TorontoOffset, 0, At(9, 0), 0 - At(8, 0)}

\* the UTC instants of a render: 01:00 and 22:00 of day 1 in Toronto
DayNows == {At(24 + 6, 0), At(48 + 3, 0)}

\* UTC starts of timed events: 23:30 and 00:30 around Toronto's midnights
TimedStarts ==
    {At(24 + 4, 30), At(24 + 5, 30), At(48 + 4, 30), At(48 + 5, 30), At(72 + 4, 30)}

\* durations of timed events, in seconds
Durations == {60, 90, At(2, 0)}

\* events as the calendar route sends them
WireEvents ==
    {[start |-> u, end |-> u + len, allDay |-> FALSE, calendarIndex |-> c] :
        u \in TimedStarts, len \in Durations, c \in {0, 1}}
    \cup {[start |-> day, end |-> day + 1, allDay |-> TRUE, calendarIndex |-> 2] :
              day \in {1, 2}}

\* new Date(start).getTime() on the wire
wireTime(w) == IF w.allDay THEN w.start * SecondsPerDay ELSE w.start

\* poll results sorted by start as the calendar route returns them
DayPolls ==
    {s \in UNION {[1..n -> WireEvents] : n \in 0..MaxGlanceEvents} :
        \A i \in 1..Len(s) - 1 : wireTime(s[i]) <= wireTime(s[i + 1])}

\* the event of the wire as the Calendar reads it
Parsed(w, i) ==
    IF w.allDay
    THEN AllDayEvent(i, w.start, w.calendarIndex)
    ELSE [TimedEvent(i, parseISO(w.start), parseISO(w.end))
             EXCEPT !.calendarIndex = w.calendarIndex]

InitDay ==
    /\ DashboardLoaded
    /\ RouteIdle
    /\ machineOffset \in MachineOffsets
    /\ currentTime \in {toZonedTime(utc) : utc \in DayNows}
    /\ data \in {[events |-> [i \in 1..Len(p) |-> Parsed(p[i], i)]] : p \in DayPolls}
    /\ containerHeight = 436
    /\ Mounted

NextDay == Render

SpecDay == InitDay /\ [][NextDay]_vars

----------------------------------------------------------------------------
(* The Dashboard of page.tsx: the two fetches and their aligned refresh     *)
(* timers.  Times are milliseconds; wallClock is read where a timer fires,  *)
(* and a response is dated by the last such instant.  The Calendar's own    *)
(* reaction to its props is the subject of Spec.                            *)

\* setInterval(..., 300000) and setInterval(..., 60000)
WeatherPeriodMs == 300000
CalendarPeriodMs == 60000

getMinutes(t) == (t \div (60 * 1000)) % 60
getSeconds(t) == (t \div 1000) % 60
getMilliseconds(t) == t % 1000

\* a first refresh 300 seconds after the load, wherever the clock stands
msUntilNextWeather_FromLoad(now) == 5 * 60 * 1000

\* msUntilNext of scheduleNextWeatherRefresh
msUntilNextWeather(now) ==
    LET minutesUntilNext == 5 - (getMinutes(now) % 5)
    IN (minutesUntilNext * 60 * 1000) - (getSeconds(now) * 1000) - getMilliseconds(now)

\* msUntilNext of scheduleNextCalendarRefresh
msUntilNextCalendar(now) == (60 * 1000) - (getSeconds(now) * 1000) - getMilliseconds(now)

WeatherState ==
    [data |-> weatherData, loading |-> weatherLoading, error |-> weatherError,
     lastRefreshed |-> weatherLastRefreshed]

CalendarState == [data |-> data, loading |-> calendarLoading, error |-> calendarError]

SetWeather(st) ==
    /\ weatherData' = st.data
    /\ weatherLoading' = st.loading
    /\ weatherError' = st.error
    /\ weatherLastRefreshed' = st.lastRefreshed

SetCalendar(st) ==
    /\ data' = st.data
    /\ calendarLoading' = st.loading
    /\ calendarError' = st.error

\* a state setter called after the unmount changes nothing
setState(new, old) == IF mounted THEN new ELSE old

\* fetchWeather / fetchCalendar up to the await: setError(null)
fetchBegins(st) == [st EXCEPT !.error = NoError]

\* the try block ran through, then finally: setData(data), setLoading(false)
fetchSucceeds(st, d) == [st EXCEPT !.data = d, !.loading = FALSE]

\* a failure that also drops the snapshot held
fetchFails_ClearsData(st, message) ==
    [st EXCEPT !.data = NoWeather, !.error = message, !.loading = FALSE]

\* the catch block, then finally: setError(message), setLoading(false)
fetchFails(st, message) == [st EXCEPT !.error = message, !.loading = FALSE]

InFlight(fetches) == fetches.older + (IF fetches.latest THEN 1 ELSE 0)

\* one more fetch is started
Started(fetches) == [older |-> InFlight(fetches), latest |-> TRUE]

\* the fetch started last (latest), or an older one, is in flight
Pending(fetches, latest) == IF latest THEN fetches.latest ELSE fetches.older > 0

\* its response has come
Answered(fetches, latest) ==
    IF latest THEN [fetches EXCEPT !.latest = FALSE]
    ELSE [fetches EXCEPT !.older = @ - 1]

\* the Calendar and Weather components return one of three screens
screen(st) ==
    IF st.loading THEN "loading"
    ELSE IF st.error # NoError \/ st.data \in {Null, NoWeather} THEN "error"
    ELSE "data"

\* the snapshots /api/weather answers with
WeatherSnapshots == {[isNull |-> FALSE, temp |-> t] : t \in {1, 2}}

\* fetchWeather is called: by the timeout or by the interval
BeginWeather ==
    /\ InFlight(weatherFetches) < MaxInFlight
    /\ weatherFetches' = Started(weatherFetches)
    /\ SetWeather(setState(fetchBegins(WeatherState), WeatherState))
    /\ refreshedAt' = [refreshedAt EXCEPT !.weather = {wallClock}]
    /\ UNCHANGED <<data, calendarVars, machineOffset, mounted, calendarLoading,
                   calendarError, calendarFetches, calendarTimeout, calendarInterval,
                   wallClock, loadedAt, routeVars>>

BeginCalendar ==
    /\ InFlight(calendarFetches) < MaxInFlight
    /\ calendarFetches' = Started(calendarFetches)
    /\ SetCalendar(setState(fetchBegins(CalendarState), CalendarState))
    /\ refreshedAt' = [refreshedAt EXCEPT !.calendar = {wallClock}]
    /\ UNCHANGED <<calendarVars, machineOffset, mounted, weatherVars, weatherFetches,
                   weatherTimeout, weatherInterval, wallClock, loadedAt, routeVars>>

\* the aligned timeout expires: fetchWeather(), then setInterval
WeatherTimeoutFires ==
    /\ weatherTimeout = {0}
    /\ weatherTimeout' = {}
    /\ weatherInterval' = {WeatherPeriodMs}
    /\ BeginWeather

WeatherIntervalFires ==
    /\ weatherInterval = {0}
    /\ weatherInterval' = {WeatherPeriodMs}
    /\ weatherTimeout' = weatherTimeout
    /\ BeginWeather

CalendarTimeoutFires ==
    /\ calendarTimeout = {0}
    /\ calendarTimeout' = {}
    /\ calendarInterval' = {CalendarPeriodMs}
    /\ BeginCalendar

CalendarIntervalFires ==
    /\ calendarInterval = {0}
    /\ calendarInterval' = {CalendarPeriodMs}
    /\ calendarTimeout' = calendarTimeout
    /\ BeginCalendar

\* a fetch of /api/weather answers with response.ok and a snapshot
WeatherFetchSucceeds(latest, snapshot) ==
    /\ Pending(weatherFetches, latest)
    /\ weatherFetches' = Answered(weatherFetches, latest)
    /\ SetWeather(setState([fetchSucceeds(WeatherState, snapshot)
                                EXCEPT !.lastRefreshed = {wallClock}],
                           WeatherState))
    /\ UNCHANGED <<data, calendarVars, machineOffset, mounted, calendarLoading,
                   calendarError, calendarFetches, weatherTimeout, weatherInterval,
                   calendarTimeout, calendarInterval, wallClock, loadedAt, refreshedAt, routeVars>>

\* it fails: the request throws or the response is not ok
WeatherFetchFails(latest) ==
    /\ Pending(weatherFetches, latest)
    /\ weatherFetches' = Answered(weatherFetches, latest)
    /\ SetWeather(setState(fetchFails(WeatherState, "Failed to load weather data"),
                           WeatherState))
    /\ UNCHANGED <<data, calendarVars, machineOffset, mounted, calendarLoading,
                   calendarError, calendarFetches, weatherTimeout, weatherInterval,
                   calendarTimeout, calendarInterval, wallClock, loadedAt, refreshedAt, routeVars>>

CalendarFetchSucceeds(latest, d) ==
    /\ Pending(calendarFetches, latest)
    /\ calendarFetches' = Answered(calendarFetches, latest)
    /\ SetCalendar(setState(fetchSucceeds(CalendarState, d), CalendarState))
    /\ UNCHANGED <<calendarVars, machineOffset, mounted, weatherVars, weatherFetches,
                   weatherTimeout, weatherInterval, calendarTimeout, calendarInterval,
                   wallClock, loadedAt, refreshedAt, routeVars>>

CalendarFetchFails(latest) ==
    /\ Pending(calendarFetches, latest)
    /\ calendarFetches' = Answered(calendarFetches, latest)
    /\ SetCalendar(setState(fetchFails(CalendarState, "Failed to load calendar data"),
                            CalendarState))
    /\ UNCHANGED <<calendarVars, machineOffset, mounted, weatherVars, weatherFetches,
                   weatherTimeout, weatherInterval, calendarTimeout, calendarInterval,
                   wallClock, loadedAt, refreshedAt, routeVars>>

\* the Dashboard is unmounted: the cleanups of its effects run, which clear
\* the two aligned timeouts
Unmount ==
    /\ mounted
    /\ mounted' = FALSE
    /\ weatherTimeout' = {}
    /\ calendarTimeout' = {}
    /\ UNCHANGED <<data, calendarVars, machineOffset, weatherVars, calendarLoading,
                   calendarError, weatherFetches, calendarFetches, weatherInterval,
                   calendarInterval, wallClock, loadedAt, refreshedAt, routeVars>>

RefreshTimers == weatherTimeout \cup weatherInterval \cup calendarTimeout \cup calendarInterval

\* time passes until the next timer is due
Pass ==
    /\ RefreshTimers # {}
    /\ 0 \notin RefreshTimers
    /\ LET d == CHOOSE t \in RefreshTimers : \A u \in RefreshTimers : t <= u IN
        /\ wallClock + d - loadedAt <= MaxClockMinutes * 60 * 1000
        /\ wallClock' = wallClock + d
        /\ weatherTimeout' = {t - d : t \in weatherTimeout}
        /\ weatherInterval' = {t - d : t \in weatherInterval}
        /\ calendarTimeout' = {t - d : t \in calendarTimeout}
        /\ calendarInterval' = {t - d : t \in calendarInterval}
    /\ UNCHANGED <<data, calendarVars, machineOffset, mounted, weatherVars, calendarLoading,
                   calendarError, weatherFetches, calendarFetches, loadedAt, refreshedAt, routeVars>>

\* minute m, second sec, millisecond ms of the hour
AtClock(m, sec, ms) == (m * 60 + sec) * 1000 + ms

\* the times of day the page is loaded at
LoadTimes == {AtClock(0, 0, 0), AtClock(3, 27, 250), AtClock(4, 59, 999), AtClock(58, 30, 500)}

\* the Dashboard after its mount effects: both fetches started, both aligned
\* timeouts set
InitDashboard ==
    /\ InToronto
    /\ RouteIdle
    /\ data = Null
    /\ currentTime \in StartTimes
    /\ containerHeight = 436
    /\ Mounted
    /\ mounted = TRUE
    /\ weatherData = NoWeather
    /\ weatherLoading = TRUE
    /\ weatherError = NoError
    /\ weatherLastRefreshed = {}
    /\ calendarLoading = TRUE
    /\ calendarError = NoError
    /\ weatherFetches = Started(NoFetches)
    /\ calendarFetches = Started(NoFetches)
    /\ loadedAt \in LoadTimes
    /\ wallClock = loadedAt
    /\ weatherTimeout = {msUntilNextWeather(loadedAt)}
    /\ weatherInterval = {}
    /\ calendarTimeout = {msUntilNextCalendar(loadedAt)}
    /\ calendarInterval = {}
    /\ refreshedAt = [weather |-> {}, calendar |-> {}]

NextDashboard ==
    \/ WeatherTimeoutFires
    \/ WeatherIntervalFires
    \/ CalendarTimeoutFires
    \/ CalendarIntervalFires
    \/ \E latest \in BOOLEAN, snapshot \in WeatherSnapshots :
           WeatherFetchSucceeds(latest, snapshot)
    \/ \E latest \in BOOLEAN : WeatherFetchFails(latest)
    \/ \E latest \in BOOLEAN, d \in Polls : CalendarFetchSucceeds(latest, d)
    \/ \E latest \in BOOLEAN : CalendarFetchFails(latest)
    \/ Unmount
    \/ Pass

SpecDashboard == InitDashboard /\ [][NextDashboard]_vars

----------------------------------------------------------------------------
(* The calendar route: GET of api/calendar/route.ts answers one request     *)

\* the week asked for: weekStart and weekEnd
weekStart == At(0, 0)
weekEnd == 7 * SecondsPerDay - 1

\* an item of a source: a Google event or a VEVENT
Item(id, start) == [id |-> id, start |-> start, end |-> start + At(1, 0), allDay |-> FALSE]

\* what a Google calendar lists for the week, ordered by start time
GoogleFeeds ==
    {<< >>, <<Item("a", At(9, 0))>>, <<Item("b", At(9, 30))>>,
     <<Item("a", At(9, 0)), Item("b", At(9, 30))>>}

\* what an iCal feed holds: also events of other weeks, in any order
ICalFeeds ==
    GoogleFeeds \cup {<<Item("b", At(9, 30)), Item("c", 0 - At(48, 0)), Item("a", At(9, 0))>>}

\* a source fails (the request throws, the response is not ok, the feed does
\* not parse) or answers with its items
Failed == [ok |-> FALSE, items |-> << >>]
Outcomes(feeds) == {Failed} \cup {[ok |-> TRUE, items |-> f] : f \in feeds}

\* the item as the route returns it
Tagged(item, calendarIndex) ==
    [id |-> item.id, start |-> item.start, end |-> item.end, allDay |-> item.allDay,
     calendarIndex |-> calendarIndex]

\* fetchICalEvents drops the events that end before the week or start after it
InWeek(item) == ~(item.end < weekStart \/ item.start > weekEnd)

\* the events one Google calendar contributes: those listed, [] when it fails
googleContribution(outcome, calendarIndex) ==
    IF outcome.ok
    THEN [i \in 1..Len(outcome.items) |-> Tagged(outcome.items[i], calendarIndex)]
    ELSE << >>

\* fetchICalEvents: the events of the week, [] when the feed fails
fetchICalEvents(outcome, calendarIndex) ==
    LET F[i \in 0..Len(outcome.items)] ==
            IF i = 0 THEN << >>
            ELSE IF InWeek(outcome.items[i])
                 THEN Append(F[i - 1], Tagged(outcome.items[i], calendarIndex))
                 ELSE F[i - 1]
    IN IF outcome.ok THEN F[Len(outcome.items)] ELSE << >>

\* allCalendarEvents.flat()
googleEvents(p) ==
    LET F[k \in 0..Len(p.google)] ==
            IF k = 0 THEN << >>
            ELSE F[k - 1] \o googleContribution(p.google[k], k - 1)
    IN F[Len(p.google)]

\* allICalEvents.flat(); the indexes go on after those of the Google calendars
icalEvents(p) ==
    LET F[k \in 0..Len(p.ical)] ==
            IF k = 0 THEN << >>
            ELSE F[k - 1] \o fetchICalEvents(p.ical[k], Len(p.google) + k - 1)
    IN F[Len(p.ical)]

AnySourceFailed(p) ==
    \/ \E k \in 1..Len(p.google) : ~p.google[k].ok
    \/ \E k \in 1..Len(p.ical) : ~p.ical[k].ok

\* a route without the catch around each source: one failure fails the request
calendarResponse_NoCatchPerSource(p) ==
    IF ~p.googleConfigured
    THEN [done |-> TRUE, status |-> 500, error |-> "Missing Google Calendar configuration",
          events |-> << >>]
    ELSE IF p.authThrows \/ AnySourceFailed(p)
    THEN [done |-> TRUE, status |-> 500, error |-> "Failed to fetch calendar data",
          events |-> << >>]
    ELSE [done |-> TRUE, status |-> 200, error |-> "",
          events |-> SortByStart(googleEvents(p) \o icalEvents(p))]

\* GET
calendarResponse(p) ==
    IF ~p.googleConfigured
    THEN [done |-> TRUE, status |-> 500, error |-> "Missing Google Calendar configuration",
          events |-> << >>]
    ELSE IF p.authThrows
    THEN [done |-> TRUE, status |-> 500, error |-> "Failed to fetch calendar data",
          events |-> << >>]
    ELSE [done |-> TRUE, status |-> 200, error |-> "",
          events |-> SortByStart(googleEvents(p) \o icalEvents(p))]

SourceLists(feeds, least) ==
    UNION {[1..n -> Outcomes(feeds)] : n \in least..MaxSources}

\* the requests: GOOGLE_CALENDAR_IDS names at least one calendar when it is
\* set, ICAL_URLS may be unset
Requests ==
    {[googleConfigured |-> TRUE, authThrows |-> t, google |-> g, ical |-> c] :
        t \in BOOLEAN, g \in SourceLists(GoogleFeeds, 1), c \in SourceLists(ICalFeeds, 0)}
    \cup {[googleConfigured |-> FALSE, authThrows |-> FALSE, google |-> << >>, ical |-> c] :
              c \in SourceLists(ICalFeeds, 0)}

InitRoute ==
    /\ InToronto
    /\ DashboardLoaded
    /\ data = Null
    /\ currentTime \in StartTimes
    /\ containerHeight = 436
    /\ Mounted
    /\ poll \in Requests
    /\ response = NoResponse

GET ==
    /\ ~response.done
    /\ response' = calendarResponse(poll)
    /\ UNCHANGED <<data, calendarVars, machineOffset, dashboardVars, poll>>

NextRoute == GET

\* fetchCalendar: a response that is not ok is what raises the calendar error
raisesCalendarError(r) == r.done /\ ~(200 <= r.status /\ r.status <= 299)

SpecRoute == InitRoute /\ [][NextRoute]_vars

----------------------------------------------------------------------------
(* The served runs: the answer of the route reaches the Calendar through    *)
(* fetchCalendar and is rendered                                            *)

\* fetchCalendar with response.ok: setCalendarData(await response.json())
CalendarServed ==
    /\ data = Null
    /\ response.done
    /\ ~raisesCalendarError(response)
    /\ CalendarDataChange([events |-> response.events])

InitServed == InitRoute

NextServed ==
    \/ GET
    \/ CalendarServed
    \/ Render

SpecServed == InitServed /\ [][NextServed]_vars

----------------------------------------------------------------------------
(* Claims about the column assignment, checked under SpecLayout *)

\* the overlap of the data model: A.start < B.end and B.start < A.end
Overlap(a, b) == a.start < b.end /\ b.start < a.end

Placed == rendered.positionedEvents

\* the size of the largest set of pairwise-overlapping events
MaxSimultaneous(events) ==
    LET cliques == {S \in SUBSET (1..Len(events)) :
                       \A i \in S : \A j \in S : i # j => Overlap(events[i], events[j])}
    IN CHOOSE n \in 0..Len(events) :
           /\ \E S \in cliques : Cardinality(S) = n
           /\ \A S \in cliques : Cardinality(S) <= n

\* C1: two distinct events that getEventsForSchedule outputs with the same
\* column never overlap (inputs have end >= start and distinct ids).
C1_SameColumnNoOverlap ==
    rendered.done =>
        \A i \in 1..Len(Placed) : \A j \in 1..Len(Placed) :
            (i # j /\ Placed[i].column = Placed[j].column)
                => ~Overlap(Placed[i], Placed[j])

\* a render with four events, three overlapping ones in three columns and a
\* later one sharing a column with an earlier one
C1_Witness ==
    /\ rendered.done
    /\ Len(Placed) = 4
    /\ Len(rendered.columns) = 3
    /\ \E i \in 1..4 : \E j \in 1..4 :
           /\ i # j
           /\ Placed[i].column = Placed[j].column
           /\ Placed[i].totalColumns > 1
           /\ Placed[j].totalColumns > 1

\* [column/totalColumns, (column+1)/totalColumns) of a and of b do not meet
SpansDisjoint(a, b) ==
    \/ (a.column + 1) * b.totalColumns <= b.column * a.totalColumns
    \/ (b.column + 1) * a.totalColumns <= a.column * b.totalColumns

\* C2: the rendered layout is collision-free: two events whose intervals
\* overlap are drawn in disjoint horizontal spans, also when their
\* totalColumns differ.
C2_CollisionFree ==
    rendered.done =>
        \A i \in 1..Len(Placed) : \A j \in 1..Len(Placed) :
            (i # j /\ Overlap(Placed[i], Placed[j]))
                => SpansDisjoint(Placed[i], Placed[j])

\* C3: the placement pass creates at least as many columns as the largest
\* number of pairwise-overlapping events.
C3_NeverUnderAllocates ==
    rendered.done =>
        Len(rendered.columns) >= MaxSimultaneous(scheduleEvents(data, currentTime, showTomorrow))

C3_Witness ==
    /\ rendered.done
    /\ MaxSimultaneous(scheduleEvents(data, currentTime, showTomorrow)) = 3
    /\ Len(rendered.columns) = 3

\* C4: two events that touch at an endpoint (A.end = B.start) are not
\* overlapping for either pass, and when they are the only events of the
\* day both come out with column 0 and totalColumns 1.
C4_TouchingIsNotOverlapping ==
    rendered.done =>
        \A i \in 1..Len(Placed) : \A j \in 1..Len(Placed) :
            (i # j /\ Placed[i].end = Placed[j].start) =>
                /\ ~IntervalsOverlap(Placed[i].start, Placed[i].end,
                                     Placed[j].start, Placed[j].end)
                /\ ~IntervalsOverlap(Placed[j].start, Placed[j].end,
                                     Placed[i].start, Placed[i].end)
                /\ Len(Placed) = 2 =>
                       /\ Placed[i].column = 0 /\ Placed[i].totalColumns = 1
                       /\ Placed[j].column = 0 /\ Placed[j].totalColumns = 1

\* two back-to-back events of positive length, alone on the day
C4_Witness ==
    /\ rendered.done
    /\ Len(Placed) = 2
    /\ Placed[1].start < Placed[1].end
    /\ Placed[1].end = Placed[2].start
    /\ Placed[2].start < Placed[2].end
    /\ Len(rendered.columns) = 1

\* the same events supplied in the order p
Permute(s, p) == [i \in 1..Len(s) |-> s[p[i]]]

\* the column and totalColumns each event (by id) was given
AssignmentOf(positioned) ==
    {<<positioned[k].id, positioned[k].column, positioned[k].totalColumns>> :
        k \in 1..Len(positioned)}

Supplied == scheduleEvents(data, currentTime, showTomorrow)

\* C5 as stated: the column assignment of the same events supplied in any
\* order equals the one of the first run.
C5_AnyOrderSameAssignment ==
    rendered.done =>
        \A p \in Permutations(1..Len(Supplied)) :
            AssignmentOf(getEventsForSchedule(Permute(Supplied, p))) = AssignmentOf(Placed)

\* p keeps the events of equal start in their relative order
KeepsTies(s, p) ==
    \A i \in 1..Len(s) : \A j \in 1..Len(s) :
        (i < j /\ s[p[i]].start = s[p[j]].start) => p[i] < p[j]

\* C5 (amended): the column assignment of the same events supplied in any
\* order that keeps events of equal start time in their relative order
\* equals the one of the first run.
C5_TieKeepingOrderSameAssignment ==
    rendered.done =>
        \A p \in Permutations(1..Len(Supplied)) :
            KeepsTies(Supplied, p) =>
                AssignmentOf(getEventsForSchedule(Permute(Supplied, p))) = AssignmentOf(Placed)

\* a day with a tie in start times and two columns, and a second supply in
\* another order that keeps the tie
C5_Witness ==
    /\ rendered.done
    /\ Len(Supplied) >= 3
    /\ Len(rendered.columns) >= 2
    /\ \E i \in 1..Len(Supplied) : \E j \in 1..Len(Supplied) :
           i # j /\ Supplied[i].start = Supplied[j].start
    /\ \E p \in Permutations(1..Len(Supplied)) :
           /\ KeepsTies(Supplied, p)
           /\ Permute(Supplied, p) # Supplied

----------------------------------------------------------------------------
(* Claims about the auto-scroll effect and the scroll debounce *)

\* C6: while isUserScrolling or showTomorrow is set, a clock tick or a change
\* of the calendar data issues no scroll: the offset stays as it is.
C6_NoAutoScrollWhileSuppressed ==
    [][((isUserScrolling \/ showTomorrow)
            /\ (ClockTick \/ \E d \in Polls : CalendarDataChange(d)))
        => (scrollTop' = scrollTop /\ lastScrollTo' = lastScrollTo)]_vars

\* the clock has just ticked while the operator was scrolling, and the offset
\* is not the one the effect would have chosen
C6_Witness ==
    /\ ticks = 1
    /\ tick = ClockTickSec
    /\ isUserScrolling
    /\ effectScrolls(data, currentTime, showTomorrow, FALSE)
    /\ scrollTop # scrollTo(scrollPosition(data, currentTime, containerHeight), containerHeight)

\* C7: after a scroll event isUserScrolling stays set until 10 seconds have
\* passed without another one; each scroll event cancels the pending timeout
\* and starts the 10 seconds again; when they expire the flag is cleared and
\* the effect runs again.
C7_ScrollDebounce ==
    /\ [](/\ (sinceScroll >= 0 /\ sinceScroll < ScrollQuietSec) => isUserScrolling
          /\ isUserScrolling =>
                 /\ sinceScroll >= 0
                 /\ scrollTimeouts =
                        {[remaining |-> ScrollQuietSec - sinceScroll, isRef |-> TRUE]}
          /\ ~isUserScrolling => scrollTimeouts = {})
    /\ [][(isUserScrolling /\ ~isUserScrolling') =>
              /\ sinceScroll = ScrollQuietSec
              /\ scrollTop' = autoScrollEffect(data, currentTime, showTomorrow, FALSE,
                                               ScrollState).scrollTop
              /\ lastScrollTo' = autoScrollEffect(data, currentTime, showTomorrow, FALSE,
                                                  ScrollState).lastScrollTo]_vars

\* 15 seconds after the mount the flag has just been cleared, after two scroll
\* events of the operator (to 600 and back to 0) of which the second came less
\* than 10 seconds after the first
C7_Witness ==
    /\ ticks = 0
    /\ tick = ClockTickSec - ScrollQuietSec - 5
    /\ ~isUserScrolling
    /\ sinceScroll = ScrollQuietSec
    /\ data # Null
    /\ scrollTop = 0
    /\ lastScrollTo.by = "none"

Clamp(x, lo, hi) == Max(lo, Min(x, hi))

\* the effect has run on the today view with the state as it is
EffectRan == data # Null /\ ~showTomorrow /\ ~isUserScrolling

NoMoreEventsToday == Len(upcomingEvents(data, currentTime)) = 0

Centered ==
    Clamp(minutesSinceMidnight(currentTime) - containerHeight \div 2,
          0, contentHeight - containerHeight)

firstUpcomingPosition ==
    LET upcoming == upcomingEvents(data, currentTime)
        starts == {upcoming[i].start : i \in 1..Len(upcoming)}
    IN minutesSinceMidnight(CHOOSE x \in starts : \A y \in starts : x <= y)

\* C9: when an event of today is upcoming, the offset the effect applies is
\* at least max(0, firstUpcomingPosition - 120); the offset is read either
\* as the top the effect asks for or as the offset the container then takes.
C9_EarliestDesiredFloor ==
    (EffectRan /\ ~NoMoreEventsToday) =>
        \/ lastScrollTo.top >= Max(0, firstUpcomingPosition - 120)
        \/ scrollTop >= Max(0, firstUpcomingPosition - 120)

\* C10: after a scroll of the effect the current-time marker is inside the
\* visible window: offset <= currentTimePosition <= offset + containerHeight,
\* for the offset asked for and for the offset the container takes; the
\* marker itself is drawn SCHEDULE_TOP_PADDING lower.
C10_MarkerVisible ==
    (EffectRan /\ lastScrollTo.by = "effect") =>
        /\ lastScrollTo.top <= minutesSinceMidnight(currentTime)
        /\ minutesSinceMidnight(currentTime) <= lastScrollTo.top + containerHeight
        /\ scrollTop <= minutesSinceMidnight(currentTime)
        /\ minutesSinceMidnight(currentTime) + SCHEDULE_TOP_PADDING
               <= scrollTop + containerHeight

\* 14:00 with events at 15:00 and at 22:00 ahead: the last step pulled the
\* offset back to 100 above the marker
C10_Witness ==
    /\ EffectRan
    /\ lastScrollTo.by = "effect"
    /\ currentTime = At(14, 0)
    /\ Len(upcomingEvents(data, currentTime)) = 2
    /\ upcomingEvents(data, currentTime)[1].start = At(15, 0)
    /\ upcomingEvents(data, currentTime)[2].end = At(22, 30)
    /\ scrollTop = minutesSinceMidnight(currentTime) - 100

----------------------------------------------------------------------------
(* Claims about the day's buckets *)

InSeq(ev, events) == \E i \in 1..Len(events) : events[i] = ev

\* the calendar date of Toronto at the render, which the target day's
\* 'yyyy-MM-dd' string names
TorontoToday == DayOf(currentTime)

\* C11: an all-day event is in the bucket of today (of tomorrow) exactly when
\* its start date string is that of today (of tomorrow), on a machine of any
\* UTC offset
C11_AllDayByDateString ==
    rendered.done =>
        \A i \in 1..Len(data.events) :
            LET ev == data.events[i] IN
            ev.allDay =>
                /\ InSeq(ev, rendered.todayAllDayEvents) <=> ev.start = TorontoToday
                /\ InSeq(ev, rendered.tomorrowAllDayEvents) <=> ev.start = TorontoToday + 1
                /\ InSeq(ev, rendered.tomorrowEventsToShow) <=> ev.start = TorontoToday + 1

C11_Witness ==
    /\ rendered.done
    /\ machineOffset < TorontoOffset
    /\ Len(rendered.todayAllDayEvents) = 1
    /\ Len(rendered.tomorrowAllDayEvents) = 1

\* the calendar date in Toronto of the start instant of a timed event
TorontoDateOf(ev) == DayOf(ev.start - machineOffset + TorontoOffset)

\* C12: a timed event is in the bucket of today (of tomorrow) exactly when its
\* start instant falls on today (on tomorrow) in Toronto, on a machine of any
\* timezone
C12_TimedByTorontoDate ==
    rendered.done =>
        \A i \in 1..Len(data.events) :
            LET ev == data.events[i] IN
            ~ev.allDay =>
                /\ InSeq(ev, rendered.todayTimedEvents) <=> TorontoDateOf(ev) = TorontoToday
                /\ InSeq(ev, rendered.tomorrowTimedEvents)
                       <=> TorontoDateOf(ev) = TorontoToday + 1

\* the timed events of tomorrow that calendar c supplied
TomorrowTimedOf(c) ==
    {rendered.tomorrowTimedEvents[i] :
        i \in {j \in 1..Len(rendered.tomorrowTimedEvents) :
                  rendered.tomorrowTimedEvents[j].calendarIndex = c}}

\* the timed events of calendar c in the list of tomorrow at a glance
ShownTimedOf(c) ==
    {rendered.tomorrowEventsToShow[i] :
        i \in {j \in 1..Len(rendered.tomorrowEventsToShow) :
                  /\ ~rendered.tomorrowEventsToShow[j].allDay
                  /\ rendered.tomorrowEventsToShow[j].calendarIndex = c}}

CalendarIndexes == {data.events[i].calendarIndex : i \in 1..Len(data.events)}

GlanceHasEveryAllDay ==
    \A i \in 1..Len(data.events) :
        data.events[i].allDay =>
            (InSeq(data.events[i], rendered.tomorrowEventsToShow)
                <=> InSeq(data.events[i], rendered.tomorrowAllDayEvents))

GlanceSortedByStart ==
    \A i \in 1..Len(rendered.tomorrowEventsToShow) - 1 :
        getTime(rendered.tomorrowEventsToShow[i])
            <= getTime(rendered.tomorrowEventsToShow[i + 1])

GlanceHasNoDuplicate ==
    \A i, j \in 1..Len(rendered.tomorrowEventsToShow) :
        rendered.tomorrowEventsToShow[i] = rendered.tomorrowEventsToShow[j] => i = j

\* C13: tomorrow at a glance lists every all-day event of tomorrow and, of each
\* calendar with timed events tomorrow, exactly one timed event, none of that
\* calendar's timed events of tomorrow lasting longer; the list is sorted by
\* start
C13_GlanceAllDayPlusLongest ==
    rendered.done =>
        /\ GlanceHasEveryAllDay
        /\ GlanceHasNoDuplicate
        /\ GlanceSortedByStart
        /\ \A c \in CalendarIndexes :
               /\ ShownTimedOf(c) \subseteq TomorrowTimedOf(c)
               /\ TomorrowTimedOf(c) # {} => Cardinality(ShownTimedOf(c)) = 1
               /\ \A shown \in ShownTimedOf(c) : \A ev \in TomorrowTimedOf(c) :
                      ev.end - ev.start <= shown.end - shown.start

\* C13 with durations counted in whole minutes, as the code compares them
C13_GlanceAllDayPlusLongestInMinutes ==
    rendered.done =>
        /\ GlanceHasEveryAllDay
        /\ GlanceHasNoDuplicate
        /\ GlanceSortedByStart
        /\ \A c \in CalendarIndexes :
               /\ ShownTimedOf(c) \subseteq TomorrowTimedOf(c)
               /\ TomorrowTimedOf(c) # {} => Cardinality(ShownTimedOf(c)) = 1
               /\ \A shown \in ShownTimedOf(c) : \A ev \in TomorrowTimedOf(c) :
                      (ev.end - ev.start) \div 60 <= (shown.end - shown.start) \div 60

----------------------------------------------------------------------------
(* Claims about the view of tomorrow *)

\* C14: while the schedule shows tomorrow a revert timeout is pending that is
\* due 30 seconds after the switch, the view never shows tomorrow beyond those
\* 30 seconds, and unless the toggle is triggered again it leaves tomorrow
\* only at 30 seconds
C14_TomorrowRevertsAfter30s ==
    /\ [](showTomorrow =>
            /\ 0 <= sinceTomorrow /\ sinceTomorrow <= 30
            /\ \E t \in tomorrowTimeouts : t.remaining = 30 - sinceTomorrow)
    /\ [][(showTomorrow /\ ~showTomorrow')
              => (handleTomorrowClick \/ sinceTomorrow = 30)]_vars
    /\ [][TomorrowTimeoutFires => ~showTomorrow']_vars

\* the revert timeout has brought the view back 30 seconds after a click at
\* mount: no restoring scroll was asked for
C14_Witness ==
    /\ ~showTomorrow
    /\ pendingScrolls = << >>
    /\ tomorrowTimeouts = {}
    /\ lastScrollTo.by = "tomorrow"
    /\ ticks = 0
    /\ tick = ClockTickSec - 30

----------------------------------------------------------------------------
(* Claims about the Dashboard *)

NothingInFlight == InFlight(weatherFetches) = 0 /\ InFlight(calendarFetches) = 0

\* C15: once the Dashboard is unmounted no timer and no fetch is left pending,
\* and no timer fires or fetch completes afterwards
C15_TeardownReleasesEverything ==
    /\ [](~mounted => (RefreshTimers = {} /\ NothingInFlight))
    /\ [][~mounted => UNCHANGED <<weatherFetches, calendarFetches, refreshedAt>>]_vars

\* C16: a failing fetch of one kind leaves the snapshot of its kind and the
\* data, error and loading state of the other kind as they were, and sets only
\* its own error and loading state; no step that changes an error changes a
\* snapshot
C16_FailureChangesOnlyItsErrorAndLoading ==
    /\ [][(\E latest \in BOOLEAN : WeatherFetchFails(latest)) =>
             /\ weatherData' = weatherData
             /\ weatherLastRefreshed' = weatherLastRefreshed
             /\ UNCHANGED <<data, calendarLoading, calendarError>>
             /\ mounted => (weatherError' # NoError /\ ~weatherLoading')]_vars
    /\ [][(\E latest \in BOOLEAN : CalendarFetchFails(latest)) =>
             /\ data' = data
             /\ UNCHANGED weatherVars
             /\ mounted => (calendarError' # NoError /\ ~calendarLoading')]_vars
    /\ [][(weatherError' # weatherError \/ calendarError' # calendarError) =>
             (weatherData' = weatherData /\ data' = data)]_vars

\* a weather refresh has failed after an earlier one succeeded, the calendar
\* being loaded without error
C16_Witness ==
    /\ mounted
    /\ weatherError # NoError
    /\ weatherData # NoWeather
    /\ weatherLastRefreshed # {}
    /\ refreshedAt.weather # {}
    /\ calendarError = NoError
    /\ data # Null
    /\ ~calendarLoading

\* C17: with a snapshot held and the last refresh failed the component shows
\* the data; the error screen shows only while no snapshot was ever fetched
C17_StaleDataStaysOnScreen ==
    /\ (~calendarLoading /\ calendarError # NoError /\ data # Null)
           => screen(CalendarState) = "data"
    /\ (~weatherLoading /\ weatherError # NoError /\ weatherData # NoWeather)
           => screen(WeatherState) = "data"
    /\ screen(CalendarState) = "error" => data = Null
    /\ screen(WeatherState) = "error" => weatherData = NoWeather

\* C20: every refresh a timer starts comes on the mark of the wall clock, a
\* minute that is a multiple of 5 at second 0 for the weather and second 0 of
\* a minute for the calendar, and one period after the refresh before it
C20_RefreshOnWallClockMarks ==
    /\ [][(WeatherTimeoutFires \/ WeatherIntervalFires) =>
             /\ getMinutes(wallClock) % 5 = 0
             /\ getSeconds(wallClock) = 0
             /\ getMilliseconds(wallClock) = 0
             /\ \A before \in refreshedAt.weather : wallClock - before = 5 * 60 * 1000]_vars
    /\ [][(CalendarTimeoutFires \/ CalendarIntervalFires) =>
             /\ getSeconds(wallClock) = 0
             /\ getMilliseconds(wallClock) = 0
             /\ \A before \in refreshedAt.calendar : wallClock - before = 60 * 1000]_vars

\* loaded at 3:27.250, the weather has been refreshed a second time, at 10:00
C20_Witness ==
    /\ loadedAt = AtClock(3, 27, 250)
    /\ wallClock = AtClock(10, 0, 0)
    /\ refreshedAt = [weather |-> {wallClock}, calendar |-> {wallClock}]
    /\ weatherInterval = {WeatherPeriodMs}

----------------------------------------------------------------------------
(* The calendar route                                                       *)

\* the sources were asked: the route is configured and got as far as polling
SourcesPolled == response.done /\ poll.googleConfigured /\ ~poll.authThrows

SourceCount == Len(poll.google) + Len(poll.ical)

\* the outcome of the source with calendarIndex c
OutcomeOf(c) ==
    IF c < Len(poll.google) THEN poll.google[c + 1] ELSE poll.ical[c + 1 - Len(poll.google)]

\* the events of the week the succeeded sources hold, each under its index
EventsOfSucceeded ==
    {Tagged(OutcomeOf(c).items[i], c) :
        <<c, i>> \in {<<c, i>> \in (0..(SourceCount - 1)) \X (1..3) :
                        /\ OutcomeOf(c).ok
                        /\ i <= Len(OutcomeOf(c).items)
                        /\ InWeek(OutcomeOf(c).items[i])}}

SomeFailedOthersSucceeded ==
    /\ \E c \in 0..(SourceCount - 1) : ~OutcomeOf(c).ok
    /\ \E c \in 0..(SourceCount - 1) : OutcomeOf(c).ok

\* C18: when a source fails during a poll while others succeed, the route
\* answers with status 200, no event of the answer carries the index of a failed
\* source, and the answer lists each event of the succeeded sources exactly once
\* and nothing else.
C18_FailedSourceContributesNothing ==
    (SourcesPolled /\ SomeFailedOthersSucceeded) =>
        /\ response.status = 200
        /\ ~raisesCalendarError(response)
        /\ \A i \in 1..Len(response.events) : OutcomeOf(response.events[i].calendarIndex).ok
        /\ {response.events[i] : i \in 1..Len(response.events)} = EventsOfSucceeded
        /\ Len(response.events) = Cardinality(EventsOfSucceeded)

\* a Google calendar failed, another Google calendar and an iCal feed answered
\* with events, and the answer is there
C18_Witness ==
    /\ SourcesPolled
    /\ \E k \in 1..Len(poll.google) : ~poll.google[k].ok
    /\ \E k \in 1..Len(poll.google) : poll.google[k].ok /\ poll.google[k].items # << >>
    /\ \E k \in 1..Len(poll.ical) : poll.ical[k].ok /\ poll.ical[k].items # << >>
    /\ Len(response.events) >= 2

AllGoogleFailed == \A k \in 1..Len(poll.google) : ~poll.google[k].ok
AllICalFailed == poll.ical # << >> /\ \A k \in 1..Len(poll.ical) : ~poll.ical[k].ok

\* C19: once the sources were polled, the calendar error is raised exactly when
\* every configured Google calendar failed or every configured iCal feed failed.
C19_ErrorOnlyOnTotalFailureOfAKind ==
    SourcesPolled => (raisesCalendarError(response) <=> (AllGoogleFailed \/ AllICalFailed))

\* C19, the half the route keeps: no error is raised while some source of each
\* kind answered.
C19_NoErrorOnPartialFailure ==
    (SourcesPolled /\ ~AllGoogleFailed /\ ~AllICalFailed) => ~raisesCalendarError(response)

\* the events of the week the iCal feeds that answered hold
EventsOfICalFeeds ==
    {Tagged(poll.ical[k].items[i], Len(poll.google) + k - 1) :
        <<k, i>> \in {<<k, i>> \in (1..Len(poll.ical)) \X (1..3) :
                        /\ poll.ical[k].ok
                        /\ i <= Len(poll.ical[k].items)
                        /\ InWeek(poll.ical[k].items[i])}}

\* C21: with iCal feeds configured and the Google configuration absent, the
\* route answers with status 200 and the events of the iCal feeds.
C21_ICalAloneIsServed ==
    (response.done /\ ~poll.googleConfigured /\ poll.ical # << >>) =>
        /\ response.status = 200
        /\ {response.events[i] : i \in 1..Len(response.events)} = EventsOfICalFeeds

\* C22: no two events of the list the route answers with have the same id.
C22_IdsUniqueInAnswer ==
    response.done =>
        \A i, j \in 1..Len(response.events) :
            response.events[i].id = response.events[j].id => i = j

----------------------------------------------------------------------------
(* Claims about the active day case of the auto-scroll effect, checked     *)
(* under SpecScroll                                                         *)

\* the position of the latest end among the upcoming events
lastUpcomingEndPosition ==
    LET upcoming == upcomingEvents(data, currentTime)
        ends == {upcoming[i].end : i \in 1..Len(upcoming)}
    IN minutesSinceMidnight(CHOOSE x \in ends : \A y \in ends : x >= y)

\* C23: when an event of today is upcoming, the effect takes as the position of
\* the last event the position of the latest end among the upcoming events, and
\* as the position of the first event that of their earliest start.
C23_FirstStartAndLatestEnd ==
    (EffectRan /\ ~NoMoreEventsToday) =>
        /\ lastEventPosition(upcomingEvents(data, currentTime)) = lastUpcomingEndPosition
        /\ firstEventPosition(upcomingEvents(data, currentTime)) = firstUpcomingPosition

\* C23, the half the effect keeps: the position of the first event is that of
\* the earliest start among the upcoming events.
C23_FirstIsEarliestStart ==
    (EffectRan /\ ~NoMoreEventsToday) =>
        firstEventPosition(upcomingEvents(data, currentTime)) = firstUpcomingPosition

\* the upcoming events are framed: the effect ran in its active day case
ActiveDayFramed == EffectRan /\ ~NoMoreEventsToday /\ lastScrollTo.by = "effect"

----------------------------------------------------------------------------
(* Claims about the toggle of the view of tomorrow, checked under Spec      *)

\* at most one revert timer is pending, and it expires 30 seconds after the
\* most recent toggle
OneRevertTimerFromLastToggle ==
    /\ Cardinality(tomorrowTimeouts) <= 1
    /\ \A t \in tomorrowTimeouts :
           showTomorrow /\ sinceTomorrow >= 0 /\ t.remaining = 30 - sinceTomorrow

\* C25 as stated: every toggle of the view of tomorrow cancels the revert timer
\* and starts it again, so that at most one revert timer is pending and it
\* expires 30 seconds after the most recent toggle.
C25_EveryToggleRestartsRevertTimer ==
    /\ []OneRevertTimerFromLastToggle
    /\ [][handleTomorrowClick =>
              tomorrowTimeouts' = {[remaining |-> 30, isRef |-> TRUE]}]_vars

\* C25 (amended): every toggle cancels the pending revert timer, the toggle that
\* opens the view of tomorrow starts a new one and the toggle that closes it
\* starts none; at most one revert timer is pending and it expires 30 seconds
\* after the most recent toggle.
C25_ToggleCancelsAndOpeningRestarts ==
    /\ []OneRevertTimerFromLastToggle
    /\ [][handleTomorrowClick =>
              /\ tomorrowTimeouts \cap tomorrowTimeouts' = {}
              /\ tomorrowTimeouts' = IF showTomorrow'
                                     THEN {[remaining |-> 30, isRef |-> TRUE]}
                                     ELSE {}]_vars

\* the view of tomorrow was opened, closed by a second toggle, whose restoring
\* scroll has been made, and has just been opened again: one timer, 30 seconds
C25_Witness ==
    /\ showTomorrow
    /\ sinceTomorrow = 0
    /\ lastScrollTo.by = "restore"
    /\ tomorrowTimeouts = {[remaining |-> 30, isRef |-> TRUE]}

----------------------------------------------------------------------------
(* Claims about who sets isUserScrolling, checked under Spec                *)

\* C26: isUserScrolling is set only by a scroll of the operator; the scroll
\* event of a scrollTo of the effect or of handleTomorrowClick leaves the flag
\* as it is.
C26_OnlyOperatorScrollSetsFlag ==
    /\ [][(~isUserScrolling /\ isUserScrolling') => \E pos \in UserOffsets : UserScroll(pos)]_vars
    /\ [][(ScrollEventDelivered /\ lastScrollTo.by # "none") =>
              isUserScrolling' = isUserScrolling]_vars

----------------------------------------------------------------------------
(* Claims about overlapping fetches, checked under SpecDashboard            *)

\* the fetch started last has answered with data, no failure has been reported
\* since it began, and a fetch started before it is still in flight
NewestAnsweredOlderInFlight(fetches, st) ==
    /\ mounted
    /\ fetches.older > 0
    /\ ~fetches.latest
    /\ st.error = NoError
    /\ ~st.loading

\* C27: once the fetch of a kind that was started last has answered with data,
\* the answer of a fetch of that kind started before it does not change the
\* data held.
C27_LateAnswerNeverOverwrites ==
    /\ [][NewestAnsweredOlderInFlight(weatherFetches, WeatherState) =>
              weatherData' = weatherData]_vars
    /\ [][NewestAnsweredOlderInFlight(calendarFetches, CalendarState) => data' = data]_vars

----------------------------------------------------------------------------
(* Claims about the number of columns and the positions, checked under      *)
(* SpecLayout                                                               *)

\* C28: the placement pass creates exactly as many columns as the largest set
\* of pairwise-overlapping events has members (events have end >= start).
C28_ColumnsEqualMaxOverlap ==
    rendered.done =>
        Len(rendered.columns) = MaxSimultaneous(scheduleEvents(data, currentTime, showTomorrow))

\* four events, never more than two at a time: two columns, each used twice
C28_Witness ==
    /\ rendered.done
    /\ Len(Placed) = 4
    /\ MaxSimultaneous(scheduleEvents(data, currentTime, showTomorrow)) = 2
    /\ Len(rendered.columns) = 2
    /\ Len(rendered.columns[1]) = 2
    /\ Len(rendered.columns[2]) = 2

\* the PositionedEvent p is within the columns, and alone in one if no other
\* event overlaps it
PositionInRange(p, i) ==
    /\ 0 <= p.column
    /\ p.column < p.totalColumns
    /\ p.totalColumns <= Len(rendered.columns)
    /\ (\A j \in 1..Len(Placed) : j # i => ~Overlap(p, Placed[j])) =>
           (p.column = 0 /\ p.totalColumns = 1)

\* C29: every event getEventsForSchedule outputs has
\* 0 <= column < totalColumns <= number of columns created, and column 0 and
\* totalColumns 1 if it overlaps no other event.
C29_PositionsInRange ==
    rendered.done => \A i \in 1..Len(Placed) : PositionInRange(Placed[i], i)

\* C29 for events with distinct ids, under SpecLayout: the same.
C29_PositionsInRangeGivenDistinctIds ==
    (rendered.done /\ \A i, j \in 1..Len(Placed) : Placed[i].id = Placed[j].id => i = j) =>
        \A i \in 1..Len(Placed) : PositionInRange(Placed[i], i)

----------------------------------------------------------------------------
(* Claims about the range of the scroll target, checked under SpecScroll    *)

InContent(top) == 0 <= top /\ top <= contentHeight - containerHeight

\* C30: every top the effect computes and asks for, in the evening case and in
\* the active day case, lies within [0, contentHeight - containerHeight].
C30_TargetWithinContent ==
    (EffectRan /\ lastScrollTo.by = "effect") => InContent(lastScrollTo.top)

\* C30, the part the effect keeps: the top of the evening case lies within the
\* content, and so does the offset the container takes in both cases.
C30_EveningTargetAndOffsetWithinContent ==
    (EffectRan /\ lastScrollTo.by = "effect") =>
        /\ NoMoreEventsToday => InContent(lastScrollTo.top)
        /\ InContent(scrollTop)

============================================================================
